---- MODULE Spec2Model ----
(***************************************************************************)
(* The hotkey interpreter of ticker_deck (app/utils/hotkeys.ts) driven by  *)
(* the KeyboardHandler host (app/components/KeyboardHandler.tsx) or by the *)
(* TradingPopup host (app/components/TradingPopup.tsx) of the dashboard    *)
(* route (app/routes/dashboard.tsx).                                       *)
(*                                                                         *)
(* handleKeyPress copies the state object it is given ({...state}),        *)
(* changes the copy and returns it; the callbacks it hands to setTimeout   *)
(* close over that copy.  The host keeps a reference to the last object    *)
(* returned.  The model therefore keeps a heap of HotkeyState objects, the *)
(* host's reference `cur`, and the set of pending timers, each bound to    *)
(* the object its callback captured.  One handleKeyPress call makes at     *)
(* most one setTimeout call, so a timer handle is identified with the id   *)
(* of the object its callback captured.                                    *)
(*                                                                         *)
(* Elapsed time is not a variable.  Timers fire in any order that the      *)
(* delays allow: a timer cannot fire while a timer that was scheduled      *)
(* earlier with a delay no longer than its own is still pending.           *)
(*                                                                         *)
(* The server side (server/websocket.server.ts, server/logger.ts) is a set *)
(* of async trading_action handlers that interleave at their awaits and    *)
(* share the log file and the backend.                                     *)
(***************************************************************************)
EXTENDS Integers, Sequences, FiniteSets, TLC

VARIABLES
    heap,          \* object id -> HotkeyState: the state objects ever returned
    cur,           \* stateRef.current: the object the host holds
    nextObj,       \* id of the next object a {...state} copy allocates
    timers,        \* pending setTimeout callbacks
    totalTickers,  \* the totalTickers prop handed to every call
    calls,         \* effect callbacks invoked by the last step, in order
    last,          \* history: the last step and the state it was given
    run,           \* history: trade-key presses since the last flush or reset
    superseded,    \* history: flush timers pending when a resetting key came
    pressed,       \* history: number of buy / sell key presses handled
    flushed,       \* history: sum of the quantities given to onBuy / onSell
    currentMessage,  \* Dashboard: the message the popup shows, or none
    messageQueue,    \* Dashboard: the messages waiting to be shown
    received,        \* number of messages received so far
    selectedTicker,  \* Dashboard: the 1-based index of the selected ticker
    shareAmount,     \* Dashboard: the share amount
    sent,          \* trading actions given to sendTradingAction by the last step
    closure,       \* what the onBuy / onSell closures of a pending flush captured
    target,        \* history: the target of the last key event
    closing,       \* TradingPopup: pending setTimeout(onClose, 300) callbacks
    displayed,     \* history: the ids of the messages shown so far, in order
    handlers,      \* server: the trading_action handlers and where they stand
    logFile,       \* server: the entries in data/trading-history.json
    backend,       \* the orders the backend has been sent
    acked          \* history: the entries whose logTradingAction returned true

\* the state of the Dashboard route and of its popup
dashboard == <<currentMessage, messageQueue, received, selectedTicker,
               shareAmount, sent, closure, target, closing, displayed>>

\* the state of the server
server == <<handlers, logFile, backend, acked>>

vars == <<heap, cur, nextObj, timers, totalTickers, calls, last, run,
          superseded, pressed, flushed, currentMessage, messageQueue,
          received, selectedTicker, shareAmount, sent, closure, target,
          closing, displayed, handlers, logFile, backend, acked>>

----------------------------------------------------------------------------
(* Bounds of the model *)

\* key presses of a behaviour of Spec, each allocating one state object
MaxKeys == 5

\* key presses of a behaviour of DigitSpec
MaxDigitKeys == 5

\* key presses of a behaviour of PopupSpec
MaxPopupKeys == 3

\* messages received in a behaviour of PopupSpec
MaxMessages == 2

\* messages received, key presses and clicks on the close button in a
\* behaviour of QueueSpec
MaxQueueMessages == 3
MaxQueueKeys == 2
MaxCloseClicks == 2

\* concurrent trading_action handlers of ServerSpec and the largest
\* quantity of an action
MaxHandlers == 2
MaxQuantity == 2

Handlers == 1..MaxHandlers

\* the initial object and one per key press
Objects ==
    1..((CHOOSE n \in {MaxKeys, MaxDigitKeys, MaxPopupKeys} :
            \A m \in {MaxKeys, MaxDigitKeys, MaxPopupKeys} : m <= n) + 1)

(* Program constants *)

BuyFlushDelay == 100
SellFlushDelay == 100
CancelExpiryDelay == 3000
DisableDelay == 500
ExpiryDelay == 1500
InitialShareAmount == 5000

----------------------------------------------------------------------------
(* Strings are sequences of one-character strings. *)

DigitChars == <<"0", "1", "2", "3", "4", "5", "6", "7", "8", "9">>

IsDigitChar(c) == \E i \in 1..Len(DigitChars) : DigitChars[i] = c

DigitValue(c) == (CHOOSE i \in 1..Len(DigitChars) : DigitChars[i] = c) - 1

NaN == 0 - 1

RECURSIVE ParsePrefix(_, _)
ParsePrefix(s, acc) ==
    IF s = <<>> \/ ~IsDigitChar(Head(s))
    THEN acc
    ELSE ParsePrefix(Tail(s), acc * 10 + DigitValue(Head(s)))

\* parseInt: the value of the leading run of digits, NaN when there is none
parseInt(s) ==
    IF s = <<>> \/ ~IsDigitChar(Head(s)) THEN NaN ELSE ParsePrefix(s, 0)

\* InRange with the upper end left out
InRangeExclusive(n, N) == n # NaN /\ n >= 1 /\ n < N

\* n >= 1 && n <= totalTickers, false for NaN
InRange(n, N) == n # NaN /\ n >= 1 /\ n <= N

\* n <= totalTickers, false for NaN
AtMost(n, N) == n # NaN /\ n <= N

\* s.substring(i): the characters of s from 0-based index i on
substring(s, i) == SubSeq(s, i + 1, Len(s))

\* s.slice(0, -1): s without its last character
DropLast(s) == IF s = <<>> THEN <<>> ELSE SubSeq(s, 1, Len(s) - 1)

(* Keys, as KeyboardEvent.key names them *)

DigitKeys == {"0", "1", "2", "3", "4", "5", "6", "7", "8", "9"}

\* the characters of a key whose name is appended to a buffer
KeyChars(key) == IF key = "F1" THEN <<"F", "1">> ELSE <<key>>

\* key.toLowerCase()
toLowerCase(key) ==
    CASE key = "B" -> "b"
      [] key = "S" -> "s"
      [] key = "C" -> "c"
      [] key = "Enter" -> "enter"
      [] key = "Escape" -> "escape"
      [] key = "Backspace" -> "backspace"
      [] OTHER -> key

\* /\d/.test(key): the key's name holds a digit somewhere
HasDigit(key) == \E i \in 1..Len(KeyChars(key)) : IsDigitChar(KeyChars(key)[i])

----------------------------------------------------------------------------
(* HotkeyState; numberBufferTimeout = 0 stands for undefined *)

createInitialHotkeyState ==
    [buyCount |-> 0, sellCount |-> 0, numberBuffer |-> <<>>,
     isChangingShares |-> FALSE, shareChangeBuffer |-> <<>>,
     disabled |-> FALSE, numberBufferTimeout |-> 0]

Call(fn, arg) == [fn |-> fn, arg |-> arg]

Timer(kind, delay) == [kind |-> kind, delay |-> delay]

\* What one handleKeyPress call does: the object it returns (`fresh` when it
\* is a new copy), the effects it invoked, the handles it gave clearTimeout
\* and the callback it gave setTimeout.
Outcome(state, fresh, effects, cleared, scheduled) ==
    [state |-> state, fresh |-> fresh, calls |-> effects,
     clear |-> cleared, schedule |-> scheduled]

\* if (numberBufferTimeout) clearTimeout(numberBufferTimeout)
ClearedHandle(state) ==
    IF state.numberBufferTimeout # 0 THEN {state.numberBufferTimeout} ELSE {}

----------------------------------------------------------------------------
(* handleKeyPress, case by case.  `state` is the copy newState as the case *)
(* finds it and `h` the handle setTimeout returns if the case calls it.    *)

\* the block that accepts a ticker number: buffer, selection, expiry timer
AcceptTicker(state, buffer, num, h) ==
    Outcome([state EXCEPT !.numberBuffer = buffer, !.numberBufferTimeout = h],
            TRUE, <<Call("onTickerChange", num)>>, {},
            {Timer("expiry", ExpiryDelay)})

RECURSIVE CascadeFrom(_, _, _, _, _)
\* the for loop of processCascadingSelection from index i on, then the
\* single-digit fallback
CascadeFrom(i, state, newDigit, N, h) ==
    LET currentBuffer == state.numberBuffer
        testNumber == substring(currentBuffer, i) \o newDigit
        testNum == parseInt(testNumber)
        singleDigit == parseInt(newDigit)
    IN  IF i <= Len(currentBuffer)
        THEN IF InRange(testNum, N)
             THEN AcceptTicker(state, testNumber, testNum, h)
             ELSE CascadeFrom(i + 1, state, newDigit, N, h)
        ELSE IF InRange(singleDigit, N)
             THEN AcceptTicker(state, newDigit, singleDigit, h)
             ELSE Outcome([state EXCEPT !.numberBuffer = <<>>], TRUE, <<>>, {}, {})

\* processCascadingSelection without its for loop
processCascadingSelectionNoLoop(state, newDigit, N, h) ==
    LET fullNumber == state.numberBuffer \o newDigit
        fullNum == parseInt(fullNumber)
    IN  IF InRange(fullNum, N)
        THEN AcceptTicker(state, fullNumber, fullNum, h)
        ELSE CascadeFrom(Len(state.numberBuffer) + 1, state, newDigit, N, h)

processCascadingSelection(state, newDigit, N, h) ==
    LET fullNumber == state.numberBuffer \o newDigit
        fullNum == parseInt(fullNumber)
    IN  IF InRange(fullNum, N)
        THEN AcceptTicker(state, fullNumber, fullNum, h)
        ELSE CascadeFrom(1, state, newDigit, N, h)

\* case "b" without the clearTimeout of the expiry timer
CaseBuyKeepsTimer(state, h) ==
    Outcome([state EXCEPT !.buyCount = @ + 1, !.sellCount = 0,
                          !.numberBuffer = <<>>, !.numberBufferTimeout = 0],
            TRUE, <<>>, {}, {Timer("buy", BuyFlushDelay)})

\* case "b" that also leaves share-edit mode
CaseBuyLeavesShareEdit(state, h) ==
    Outcome([state EXCEPT !.buyCount = @ + 1, !.sellCount = 0,
                          !.isChangingShares = FALSE,
                          !.numberBuffer = <<>>, !.numberBufferTimeout = 0],
            TRUE, <<>>, ClearedHandle(state), {Timer("buy", BuyFlushDelay)})

\* case "b"
CaseBuy(state, h) ==
    Outcome([state EXCEPT !.buyCount = @ + 1, !.sellCount = 0,
                          !.numberBuffer = <<>>, !.numberBufferTimeout = 0],
            TRUE, <<>>, ClearedHandle(state), {Timer("buy", BuyFlushDelay)})

\* case "s" without the reset of buyCount
CaseSellKeepsBuy(state, h) ==
    Outcome([state EXCEPT !.sellCount = @ + 1,
                          !.numberBuffer = <<>>, !.numberBufferTimeout = 0],
            TRUE, <<>>, ClearedHandle(state), {Timer("sell", SellFlushDelay)})

\* case "s"
CaseSell(state, h) ==
    Outcome([state EXCEPT !.sellCount = @ + 1, !.buyCount = 0,
                          !.numberBuffer = <<>>, !.numberBufferTimeout = 0],
            TRUE, <<>>, ClearedHandle(state), {Timer("sell", SellFlushDelay)})

\* case "c" without the clearTimeout of the expiry timer
CaseChangeKeepsTimer(state) ==
    Outcome([state EXCEPT !.isChangingShares = TRUE, !.shareChangeBuffer = <<>>,
                          !.buyCount = 0, !.sellCount = 0,
                          !.numberBuffer = <<>>, !.numberBufferTimeout = 0],
            TRUE, <<>>, {}, {})

\* case "c" without the reset of shareChangeBuffer
CaseChangeKeepsShares(state) ==
    Outcome([state EXCEPT !.isChangingShares = TRUE,
                          !.buyCount = 0, !.sellCount = 0,
                          !.numberBuffer = <<>>, !.numberBufferTimeout = 0],
            TRUE, <<>>, ClearedHandle(state), {})

\* case "c"
CaseChange(state) ==
    Outcome([state EXCEPT !.isChangingShares = TRUE, !.shareChangeBuffer = <<>>,
                          !.buyCount = 0, !.sellCount = 0,
                          !.numberBuffer = <<>>, !.numberBufferTimeout = 0],
            TRUE, <<>>, ClearedHandle(state), {})

\* case "enter" that confirms the share amount and stays in share-edit mode
CaseEnterStaysInMode(state, N) ==
    IF state.isChangingShares /\ state.shareChangeBuffer # <<>>
    THEN LET shares == parseInt(state.shareChangeBuffer)
         IN  Outcome([state EXCEPT !.shareChangeBuffer = <<>>],
                     TRUE,
                     IF shares # NaN /\ shares > 0
                     THEN <<Call("onShareChange", shares)>> ELSE <<>>,
                     {}, {})
    ELSE IF state.numberBuffer # <<>>
    THEN LET tickerNum == parseInt(state.numberBuffer)
         IN  Outcome([state EXCEPT !.numberBuffer = <<>>,
                                   !.numberBufferTimeout = 0],
                     TRUE,
                     IF InRange(tickerNum, N)
                     THEN <<Call("onTickerChange", tickerNum)>> ELSE <<>>,
                     ClearedHandle(state), {})
    ELSE Outcome(state, TRUE, <<>>, {}, {})

\* case "enter" that hands a share amount of 0 to onShareChange
CaseEnterAcceptsZero(state, N) ==
    IF state.isChangingShares /\ state.shareChangeBuffer # <<>>
    THEN LET shares == parseInt(state.shareChangeBuffer)
         IN  Outcome([state EXCEPT !.isChangingShares = FALSE,
                                   !.shareChangeBuffer = <<>>],
                     TRUE,
                     IF shares # NaN /\ shares >= 0
                     THEN <<Call("onShareChange", shares)>> ELSE <<>>,
                     {}, {})
    ELSE IF state.numberBuffer # <<>>
    THEN LET tickerNum == parseInt(state.numberBuffer)
         IN  Outcome([state EXCEPT !.numberBuffer = <<>>,
                                   !.numberBufferTimeout = 0],
                     TRUE,
                     IF InRange(tickerNum, N)
                     THEN <<Call("onTickerChange", tickerNum)>> ELSE <<>>,
                     ClearedHandle(state), {})
    ELSE Outcome(state, TRUE, <<>>, {}, {})

\* case "enter" without the clearTimeout of the expiry timer
CaseEnterKeepsTimer(state, N) ==
    IF state.isChangingShares /\ state.shareChangeBuffer # <<>>
    THEN LET shares == parseInt(state.shareChangeBuffer)
         IN  Outcome([state EXCEPT !.isChangingShares = FALSE,
                                   !.shareChangeBuffer = <<>>],
                     TRUE,
                     IF shares # NaN /\ shares > 0
                     THEN <<Call("onShareChange", shares)>> ELSE <<>>,
                     {}, {})
    ELSE IF state.numberBuffer # <<>>
    THEN LET tickerNum == parseInt(state.numberBuffer)
         IN  Outcome([state EXCEPT !.numberBuffer = <<>>,
                                   !.numberBufferTimeout = 0],
                     TRUE,
                     IF InRange(tickerNum, N)
                     THEN <<Call("onTickerChange", tickerNum)>> ELSE <<>>,
                     {}, {})
    ELSE Outcome(state, TRUE, <<>>, {}, {})

\* case "enter"
CaseEnter(state, N) ==
    IF state.isChangingShares /\ state.shareChangeBuffer # <<>>
    THEN LET shares == parseInt(state.shareChangeBuffer)
         IN  Outcome([state EXCEPT !.isChangingShares = FALSE,
                                   !.shareChangeBuffer = <<>>],
                     TRUE,
                     IF shares # NaN /\ shares > 0
                     THEN <<Call("onShareChange", shares)>> ELSE <<>>,
                     {}, {})
    ELSE IF state.numberBuffer # <<>>
    THEN LET tickerNum == parseInt(state.numberBuffer)
         IN  Outcome([state EXCEPT !.numberBuffer = <<>>,
                                   !.numberBufferTimeout = 0],
                     TRUE,
                     IF InRange(tickerNum, N)
                     THEN <<Call("onTickerChange", tickerNum)>> ELSE <<>>,
                     ClearedHandle(state), {})
    ELSE Outcome(state, TRUE, <<>>, {}, {})

\* case "backspace": case "escape" without the share-edit branch
CaseCancelIgnoresMode(state, h) ==
    IF state.numberBuffer # <<>>
    THEN LET buffer == DropLast(state.numberBuffer)
         IN  IF buffer # <<>>
             THEN Outcome([state EXCEPT !.numberBuffer = buffer,
                                        !.numberBufferTimeout = h],
                          TRUE, <<>>, ClearedHandle(state),
                          {Timer("expiry", CancelExpiryDelay)})
             ELSE Outcome([state EXCEPT !.numberBuffer = buffer,
                                        !.numberBufferTimeout = 0],
                          TRUE, <<>>, ClearedHandle(state), {})
    ELSE Outcome([state EXCEPT !.disabled = TRUE], TRUE,
                 <<Call("onDisableTemporary", 0)>>, {},
                 {Timer("release", DisableDelay)})

\* case "backspace": case "escape" arming a new expiry without the
\* clearTimeout of the pending one
CaseCancelKeepsTimer(state, h) ==
    IF state.isChangingShares
    THEN Outcome([state EXCEPT !.shareChangeBuffer = DropLast(@)],
                 TRUE, <<>>, {}, {})
    ELSE IF state.numberBuffer # <<>>
    THEN LET buffer == DropLast(state.numberBuffer)
         IN  IF buffer # <<>>
             THEN Outcome([state EXCEPT !.numberBuffer = buffer,
                                        !.numberBufferTimeout = h],
                          TRUE, <<>>, {},
                          {Timer("expiry", CancelExpiryDelay)})
             ELSE Outcome([state EXCEPT !.numberBuffer = buffer,
                                        !.numberBufferTimeout = 0],
                          TRUE, <<>>, ClearedHandle(state), {})
    ELSE Outcome([state EXCEPT !.disabled = TRUE], TRUE,
                 <<Call("onDisableTemporary", 0)>>, {},
                 {Timer("release", DisableDelay)})

\* case "backspace": case "escape"
CaseCancel(state, h) ==
    IF state.isChangingShares
    THEN Outcome([state EXCEPT !.shareChangeBuffer = DropLast(@)],
                 TRUE, <<>>, {}, {})
    ELSE IF state.numberBuffer # <<>>
    THEN LET buffer == DropLast(state.numberBuffer)
         IN  IF buffer # <<>>
             THEN Outcome([state EXCEPT !.numberBuffer = buffer,
                                        !.numberBufferTimeout = h],
                          TRUE, <<>>, ClearedHandle(state),
                          {Timer("expiry", CancelExpiryDelay)})
             ELSE Outcome([state EXCEPT !.numberBuffer = buffer,
                                        !.numberBufferTimeout = 0],
                          TRUE, <<>>, ClearedHandle(state), {})
    ELSE Outcome([state EXCEPT !.disabled = TRUE], TRUE,
                 <<Call("onDisableTemporary", 0)>>, {},
                 {Timer("release", DisableDelay)})

\* default, a key with a digit in its name, in ticker mode (lines 141-189);
\* the handle given to clearTimeout stays in the state
TickerDigit(state, key, N, h) ==
    LET singleDigit == parseInt(key)
        extendedBuffer == state.numberBuffer \o key
        extendedNum == parseInt(extendedBuffer)
    IN  IF InRange(singleDigit, N)
        THEN IF AtMost(extendedNum, N) /\ state.numberBuffer # <<>>
             THEN AcceptTicker(state, extendedBuffer, extendedNum, h)
             ELSE IF state.numberBuffer # <<>>
             THEN processCascadingSelection(state, key, N, h)
             ELSE AcceptTicker(state, key, singleDigit, h)
        ELSE IF state.numberBuffer # <<>>
             THEN processCascadingSelection(state, key, N, h)
             ELSE Outcome([state EXCEPT !.numberBuffer = <<>>], TRUE, <<>>, {}, {})

\* default that takes every digit as a ticker digit, whatever the mode
CaseDefaultIgnoresMode(state, key, N, h) ==
    IF HasDigit(key)
    THEN LET o == [TickerDigit(state, KeyChars(key), N, h)
                      EXCEPT !.clear = ClearedHandle(state)]
         IN  [o EXCEPT !.state.buyCount = 0, !.state.sellCount = 0]
    ELSE Outcome(state, TRUE, <<>>, {}, {})

\* default without the reset of buyCount and sellCount on a digit
CaseDefaultKeepsCounts(state, key, N, h) ==
    IF HasDigit(key)
    THEN IF state.isChangingShares
         THEN Outcome([state EXCEPT !.shareChangeBuffer = @ \o KeyChars(key)],
                      TRUE, <<>>, {}, {})
         ELSE [TickerDigit(state, KeyChars(key), N, h)
                  EXCEPT !.clear = ClearedHandle(state)]
    ELSE Outcome(state, TRUE, <<>>, {}, {})

\* default
CaseDefault(state, key, N, h) ==
    IF HasDigit(key)
    THEN LET o == IF state.isChangingShares
                  THEN Outcome([state EXCEPT !.shareChangeBuffer = @ \o KeyChars(key)],
                               TRUE, <<>>, {}, {})
                  ELSE [TickerDigit(state, KeyChars(key), N, h)
                           EXCEPT !.clear = ClearedHandle(state)]
         IN  [o EXCEPT !.state.buyCount = 0, !.state.sellCount = 0]
    ELSE Outcome(state, TRUE, <<>>, {}, {})

\* switch (key.toLowerCase())
Dispatch(key, state, N, h) ==
    LET k == toLowerCase(key)
    IN  CASE k = "b" -> CaseBuy(state, h)
          [] k = "s" -> CaseSell(state, h)
          [] k = "c" -> CaseChange(state)
          [] k = "enter" -> CaseEnter(state, N)
          [] k \in {"backspace", "escape"} -> CaseCancel(state, h)
          [] OTHER -> CaseDefault(state, key, N, h)

\* handleKeyPress returning a copy of a disabled state
handleKeyPressCopiesDisabled(key, state, N, h) ==
    IF state.disabled
    THEN Outcome(state, TRUE, <<>>, {}, {})
    ELSE Dispatch(key, state, N, h)

\* handleKeyPress without the early return on state.disabled
handleKeyPressUnguarded(key, state, N, h) == Dispatch(key, state, N, h)

\* handleKeyPress without the copy: it writes to the object passed in and
\* returns it
handleKeyPressInPlace(key, state, N, h) ==
    IF state.disabled
    THEN Outcome(state, FALSE, <<>>, {}, {})
    ELSE [Dispatch(key, state, N, h) EXCEPT !.fresh = FALSE]

handleKeyPress(key, state, N, h) ==
    IF state.disabled
    THEN Outcome(state, FALSE, <<>>, {}, {})
    ELSE Dispatch(key, state, N, h)

----------------------------------------------------------------------------
(* The setTimeout callbacks, on the object each captured *)

Fired(state, effects) == [state |-> state, calls |-> effects]

BuyFlushCallback(state) ==
    IF state.buyCount > 0
    THEN Fired([state EXCEPT !.buyCount = 0], <<Call("onBuy", state.buyCount)>>)
    ELSE Fired(state, <<>>)

SellFlushCallback(state) ==
    IF state.sellCount > 0
    THEN Fired([state EXCEPT !.sellCount = 0], <<Call("onSell", state.sellCount)>>)
    ELSE Fired(state, <<>>)

\* an expiry callback that selects the buffered ticker again before clearing
ExpiryCallbackReconfirm(state) ==
    Fired([state EXCEPT !.numberBuffer = <<>>, !.numberBufferTimeout = 0],
          IF state.numberBuffer # <<>>
          THEN <<Call("onTickerChange", parseInt(state.numberBuffer))>>
          ELSE <<>>)

ExpiryCallback(state) ==
    Fired([state EXCEPT !.numberBuffer = <<>>, !.numberBufferTimeout = 0], <<>>)

ReleaseCallback(state) ==
    Fired([state EXCEPT !.disabled = FALSE], <<>>)

----------------------------------------------------------------------------
(* The host (KeyboardHandler) and the event loop *)

\* objects no reference reaches any more are collected
Collect(h, held, pending) ==
    [o \in Objects |->
        IF o = held \/ (\E t \in pending : t.id = o)
        THEN h[o] ELSE createInitialHotkeyState]

\* a pending timer may fire unless one scheduled earlier, with a delay no
\* longer than its own, is still pending
CanFire(t) == \A u \in timers : u.id < t.id => u.delay > t.delay

Trade(b, s) == [buy |-> b, sell |-> s]

\* the keys that spec 4.1 says reset a trade counter
ResetsBuy(key) == toLowerCase(key) \in {"s", "c"} \/ HasDigit(key)
ResetsSell(key) == toLowerCase(key) \in {"b", "c"} \/ HasDigit(key)

Pending(kind) == {t.id : t \in {u \in timers : u.kind = kind}}

\* the history of a handled key press
KeyHistory(key) ==
    LET k == toLowerCase(key)
        handled == ~heap[cur].disabled
    IN  /\ run' = IF ~handled THEN run
                  ELSE Trade(IF k = "b" THEN run.buy + 1
                             ELSE IF ResetsBuy(key) THEN 0 ELSE run.buy,
                             IF k = "s" THEN run.sell + 1
                             ELSE IF ResetsSell(key) THEN 0 ELSE run.sell)
        /\ superseded' = IF ~handled THEN superseded
                         ELSE superseded
                              \cup (IF ResetsBuy(key) THEN Pending("buy") ELSE {})
                              \cup (IF ResetsSell(key) THEN Pending("sell") ELSE {})
        /\ pressed' = IF ~handled THEN pressed
                      ELSE Trade(pressed.buy + (IF k = "b" THEN 1 ELSE 0),
                                 pressed.sell + (IF k = "s" THEN 1 ELSE 0))
        /\ flushed' = flushed
        /\ last' = [op |-> "key", key |-> key, pre |-> heap[cur], obj |-> cur,
                    run |-> run, timers |-> timers]

\* the rest of the Dashboard is as it was, and so is the server
DashboardKept ==
    UNCHANGED <<currentMessage, messageQueue, received, selectedTicker,
                shareAmount, closure, closing, displayed, server>>

\* what a host does with the outcome o of its handleKeyPress call: the
\* timers cleared and armed take effect, and if (newState !==
\* stateRef.current) the host keeps the object returned.  A fresh object
\* is the copy {...state}: the writes of the call went to it, and the
\* object passed in, which the host referred to throughout the call, is as
\* it was.  An object that is not fresh is the one passed in, holding
\* whatever the call left in it.
StoreState(o, key) ==
    LET left == {t \in timers : t.id \notin o.clear}
        armed == {[id |-> nextObj, kind |-> s.kind, delay |-> s.delay] :
                     s \in o.schedule}
    IN  /\ IF o.fresh
           THEN /\ heap' = [Collect([heap EXCEPT ![nextObj] = o.state],
                                    nextObj, left \cup armed)
                               EXCEPT ![cur] = heap[cur]]
                /\ cur' = nextObj
                /\ nextObj' = nextObj + 1
           ELSE /\ heap' = [heap EXCEPT ![cur] = o.state]
                /\ UNCHANGED <<cur, nextObj>>
        /\ timers' = left \cup armed
        /\ calls' = o.calls
        /\ KeyHistory(key)

\* a key event a host does not handle: nothing but the history changes
Dropped(key) ==
    /\ last' = [op |-> "dropped", key |-> key, pre |-> heap[cur], obj |-> cur,
                run |-> run, timers |-> timers]
    /\ calls' = <<>>
    /\ UNCHANGED <<heap, cur, nextObj, timers, totalTickers, run, superseded,
                   pressed, flushed>>

\* handleKeyDown of KeyboardHandler for a key event on tgt ("document", or
\* "text" for an input or textarea): return if the target is an input
\* field, else call handleKeyPress on stateRef.current and keep the object
\* it returns
handleKeyDown(key, tgt) ==
    /\ IF tgt # "document"
       THEN Dropped(key)
       ELSE /\ StoreState(handleKeyPress(key, heap[cur], totalTickers, nextObj),
                          key)
            /\ UNCHANGED totalTickers
    /\ sent' = <<>>
    /\ target' = tgt
    /\ DashboardKept

\* the history of a timer firing
FireHistory(t, effects) ==
    LET bought == IF effects # <<>> /\ effects[1].fn = "onBuy"
                  THEN effects[1].arg ELSE 0
        sold == IF effects # <<>> /\ effects[1].fn = "onSell"
                THEN effects[1].arg ELSE 0
    IN  /\ run' = Trade(IF t.kind = "buy" THEN 0 ELSE run.buy,
                        IF t.kind = "sell" THEN 0 ELSE run.sell)
        /\ superseded' = superseded
        /\ pressed' = pressed
        /\ flushed' = Trade(flushed.buy + bought, flushed.sell + sold)
        /\ last' = [op |-> t.kind, key |-> "", pre |-> heap[t.id], obj |-> t.id,
                    run |-> run, timers |-> timers]

\* a setTimeout callback runs on the object it captured
FireOn(t, fired) ==
    /\ t \in timers
    /\ CanFire(t)
    /\ heap' = Collect([heap EXCEPT ![t.id] = fired.state], cur, timers \ {t})
    /\ timers' = timers \ {t}
    /\ calls' = fired.calls
    /\ FireHistory(t, fired.calls)
    /\ UNCHANGED <<cur, nextObj, totalTickers>>

\* a callback whose effects, if any, do not reach the Dashboard
Fire(t, fired) ==
    /\ FireOn(t, fired)
    /\ sent' = <<>>
    /\ target' = "none"
    /\ DashboardKept

BuyFlush(t) == t.kind = "buy" /\ Fire(t, BuyFlushCallback(heap[t.id]))

SellFlush(t) == t.kind = "sell" /\ Fire(t, SellFlushCallback(heap[t.id]))

BufferExpiry(t) == t.kind = "expiry" /\ Fire(t, ExpiryCallback(heap[t.id]))

LockoutRelease(t) == t.kind = "release" /\ Fire(t, ReleaseCallback(heap[t.id]))

\* a market message: its id and the number of its tickers; no message
Message(id, n) == [id |-> id, tickers |-> n]

NoMessage == Message(0, 0)

\* what the onBuy / onSell closures of a TradingPopup key handler captured
Closure(changing, ticker, message) ==
    [isChangingShares |-> changing, selectedTicker |-> ticker,
     message |-> message]

NoClosure == Closure(FALSE, 0, NoMessage)

\* a trading_action handler that has not been called
IdleHandler ==
    [pc |-> "idle", quantity |-> 0, i |-> 0, failed |-> FALSE, logs |-> <<>>,
     response |-> "none"]

\* the state after construction, for a totalTickers drawn from counts
InitWith(counts) ==
    /\ heap = [o \in Objects |-> createInitialHotkeyState]
    /\ cur = 1
    /\ nextObj = 2
    /\ timers = {}
    /\ totalTickers \in counts
    /\ calls = <<>>
    /\ last = [op |-> "init", key |-> "", pre |-> createInitialHotkeyState,
               obj |-> 1, run |-> Trade(0, 0), timers |-> {}]
    /\ run = Trade(0, 0)
    /\ superseded = {}
    /\ pressed = Trade(0, 0)
    /\ flushed = Trade(0, 0)
    /\ currentMessage = NoMessage
    /\ messageQueue = <<>>
    /\ received = 0
    /\ selectedTicker = 1
    /\ shareAmount = InitialShareAmount
    /\ sent = <<>>
    /\ closure = [o \in Objects |-> NoClosure]
    /\ target = "none"
    /\ closing = 0
    /\ displayed = <<>>
    /\ handlers = [h \in Handlers |-> IdleHandler]
    /\ logFile = <<>>
    /\ backend = <<>>
    /\ acked = {}

\* the timers' callbacks, as the event loop runs them
TimerNext ==
    \/ \E t \in timers : BuyFlush(t)
    \/ \E t \in timers : SellFlush(t)
    \/ \E t \in timers : BufferExpiry(t)
    \/ \E t \in timers : LockoutRelease(t)

(* Spec: the trading keys, the mode keys, a key that is no hotkey and a    *)
(* few digits, with 0 or 20 tickers                                        *)

Keys == {"b", "B", "s", "c", "Enter", "Escape", "x", "0", "2", "5", "7"}

TickerCounts == {0, 20}

Init == InitWith(TickerCounts)

\* the keys of Spec are pressed with no input field focused
KeyDown ==
    nextObj <= MaxKeys + 1 /\ \E key \in Keys : handleKeyDown(key, "document")

Next == KeyDown \/ TimerNext

Spec == Init /\ [][Next]_vars

(* DigitSpec: ticker entry with every digit, Backspace and Enter, with 5,  *)
(* 12, 20 or 99 tickers                                                    *)

TickerKeys == DigitKeys \cup {"Backspace", "Enter"}

DigitTickerCounts == {5, 12, 20, 99}

DigitInit == InitWith(DigitTickerCounts)

\* the key typed while an input field is focused
FieldKeys == {"1"}

DigitTargets(key) == IF key \in FieldKeys THEN {"document", "text"} ELSE {"document"}

DigitKeyDown ==
    /\ nextObj <= MaxDigitKeys + 1
    /\ \E key \in TickerKeys : \E tgt \in DigitTargets(key) : handleKeyDown(key, tgt)

\* the timers ticker entry arms
DigitTimerNext ==
    \/ \E t \in timers : BufferExpiry(t)
    \/ \E t \in timers : LockoutRelease(t)

DigitNext == DigitKeyDown \/ DigitTimerNext

DigitSpec == DigitInit /\ [][DigitNext]_vars

\* the event loop runs a callback that is due: a pending timer fires
FairDigitSpec == DigitSpec /\ WF_vars(DigitTimerNext)

----------------------------------------------------------------------------
(* The Dashboard route and its TradingPopup host.  A ticker is named by    *)
(* its 1-based index in the tickers of its message.                        *)

\* handleTrade of Dashboard, with the currentMessage its closure captured
handleTrade(action, ticker, shares, message) ==
    IF message = NoMessage
    THEN <<>>
    ELSE <<[action |-> action, ticker |-> ticker, shares |-> shares,
            quantity |-> 1, messageId |-> message.id]>>

\* the onBuy / onSell closure the popup hands to handleKeyPress, called with
\* quantity: it reads the hotkeyState, selectedTicker and message of the
\* render that created it
onTrade(action, quantity, c) ==
    IF ~c.isChangingShares /\ c.selectedTicker \in 1..c.message.tickers
    THEN handleTrade(action, c.selectedTicker, quantity, c.message)
    ELSE <<>>

\* the effect of Dashboard that drops every queued message but the one it
\* shows
ShowNextEmptiesQueue(message, queue) ==
    IF queue # <<>> /\ message = NoMessage
    THEN [message |-> Head(queue), queue |-> <<>>, reset |-> TRUE]
    ELSE [message |-> message, queue |-> queue, reset |-> FALSE]

\* the effect of Dashboard on messageQueue and currentMessage: with no
\* popup open the first queued message is shown and the selection reset
ShowNext(message, queue) ==
    IF queue # <<>> /\ message = NoMessage
    THEN [message |-> Head(queue), queue |-> Tail(queue), reset |-> TRUE]
    ELSE [message |-> message, queue |-> queue, reset |-> FALSE]

\* handleMessage of Dashboard for a message of n tickers, and the effect
handleMessage(n) ==
    LET shown == ShowNext(currentMessage,
                          Append(messageQueue, Message(received + 1, n)))
    IN  /\ currentMessage' = shown.message
        /\ messageQueue' = shown.queue
        /\ received' = received + 1
        /\ selectedTicker' = IF shown.reset THEN 1 ELSE selectedTicker
        /\ totalTickers' = shown.message.tickers
        /\ sent' = <<>>
        /\ calls' = <<>>
        /\ target' = "none"
        /\ last' = [op |-> "message", key |-> "", pre |-> heap[cur], obj |-> cur,
                    run |-> run, timers |-> timers]
        /\ displayed' = IF shown.reset
                        THEN Append(displayed, shown.message.id)
                        ELSE displayed
        /\ UNCHANGED <<heap, cur, nextObj, timers, run, superseded, pressed,
                       flushed, shareAmount, closure, closing, server>>

\* the keys the popup lets through to a share amount being typed
ShareEntryKey(key) ==
    HasDigit(key) \/ toLowerCase(key) \in {"enter", "backspace", "escape"}

\* the input-field filter of the popup that lets every field through
\* outside share-edit mode
FilteredInShareEditOnly(key, tgt, changing) ==
    /\ tgt # "document"
    /\ changing
    /\ tgt # "number" \/ ~ShareEntryKey(key)

\* the input-field filter of the popup: the event is not handled.  tgt is
\* "document", "number" (the share input) or "text" (any other input or
\* textarea)
Filtered(key, tgt, changing) ==
    /\ tgt # "document"
    /\ IF changing
       THEN tgt # "number" \/ ~ShareEntryKey(key)
       ELSE tgt # "number"

\* the share-change guard of the popup taking digits only
ShareGuardDigitsOnly(key, changing) == changing /\ HasDigit(key)

\* the share-change guard of the popup takes the event
ShareGuard(key, changing) ==
    changing /\ (toLowerCase(key) \in {"b", "s"} \/ HasDigit(key))

\* handleKeyDown of TradingPopup for a key event on tgt
PopupHandleKeyDown(key, tgt) ==
    LET changing == heap[cur].isChangingShares
        guarded == ShareGuard(key, changing)
        o == handleKeyPress(key, heap[cur], currentMessage.tickers, nextObj)
        called == IF o.calls = <<>> THEN "" ELSE o.calls[1].fn
        selects == called = "onTickerChange" /\ ~guarded /\ ~changing
        shown == ShowNext(IF called = "onDisableTemporary"
                          THEN NoMessage ELSE currentMessage,
                          messageQueue)
        trades == \E t \in o.schedule : t.kind \in {"buy", "sell"}
    IN  /\ currentMessage # NoMessage
        /\ target' = tgt
        /\ sent' = <<>>
        /\ UNCHANGED <<received, closing, server>>
        /\ IF Filtered(key, tgt, changing) \/ (guarded /\ ~ShareEntryKey(key))
           THEN /\ Dropped(key)
                /\ UNCHANGED <<currentMessage, messageQueue, selectedTicker,
                               shareAmount, closure, displayed>>
           ELSE /\ StoreState(o, key)
                /\ selectedTicker' = IF shown.reset THEN 1
                                     ELSE IF selects THEN o.calls[1].arg
                                     ELSE selectedTicker
                /\ shareAmount' = IF called = "onShareChange"
                                  THEN o.calls[1].arg ELSE shareAmount
                /\ currentMessage' = shown.message
                /\ messageQueue' = shown.queue
                /\ displayed' = IF shown.reset
                                THEN Append(displayed, shown.message.id)
                                ELSE displayed
                /\ totalTickers' = shown.message.tickers
                /\ closure' = IF trades
                              THEN [closure EXCEPT ![nextObj] =
                                      Closure(changing, selectedTicker,
                                              currentMessage)]
                              ELSE closure

\* a flush callback whose onBuy / onSell is the closure of the popup
PopupFire(t, fired, action) ==
    /\ FireOn(t, fired)
    /\ sent' = IF fired.calls = <<>> THEN <<>>
               ELSE onTrade(action, fired.calls[1].arg, closure[t.id])
    /\ closure' = [closure EXCEPT ![t.id] = NoClosure]
    /\ target' = "none"
    /\ UNCHANGED <<currentMessage, messageQueue, received, selectedTicker,
                   shareAmount, closing, displayed, server>>

PopupBuyFlush(t) ==
    t.kind = "buy" /\ PopupFire(t, BuyFlushCallback(heap[t.id]), "buy")

PopupSellFlush(t) ==
    t.kind = "sell" /\ PopupFire(t, SellFlushCallback(heap[t.id]), "sell")

(* PopupSpec: messages of 0 or 30 tickers arrive; keys are pressed on the   *)
(* document, in the share input or in another field while a popup is open *)

PopupKeys == {"b", "s", "c", "2", "Enter", "Escape"}

PopupTargets == {"document", "number", "text"}

PopupTickerCounts == {0, 30}

PopupInit == InitWith({0})

Receive == received < MaxMessages /\ \E n \in PopupTickerCounts : handleMessage(n)

PopupKeyDown ==
    /\ nextObj <= MaxPopupKeys + 1
    /\ \E key \in PopupKeys, tgt \in PopupTargets : PopupHandleKeyDown(key, tgt)

PopupNext ==
    \/ Receive
    \/ PopupKeyDown
    \/ \E t \in timers : PopupBuyFlush(t)
    \/ \E t \in timers : PopupSellFlush(t)
    \/ \E t \in timers : BufferExpiry(t)
    \/ \E t \in timers : LockoutRelease(t)

PopupSpec == PopupInit /\ [][PopupNext]_vars

(* QueueSpec: messages arrive and popups are closed, by the Escape key or  *)
(* by a click on the close button; the key 2 selects the second ticker     *)

\* handleClose of TradingPopup, on a click on the close button or on the
\* backdrop: setTimeout(onClose, 300)
handleClose ==
    /\ currentMessage # NoMessage
    /\ closing < MaxCloseClicks
    /\ closing' = closing + 1
    /\ last' = [op |-> "click", key |-> "", pre |-> heap[cur], obj |-> cur,
                run |-> run, timers |-> timers]
    /\ calls' = <<>>
    /\ sent' = <<>>
    /\ target' = "none"
    /\ UNCHANGED <<heap, cur, nextObj, timers, totalTickers, run, superseded,
                   pressed, flushed, currentMessage, messageQueue, received,
                   selectedTicker, shareAmount, closure, displayed, server>>

\* the callback of handleClose runs: handleClosePopup of Dashboard, and the
\* effect on messageQueue and currentMessage
handleClosePopup ==
    LET shown == ShowNext(NoMessage, messageQueue)
    IN  /\ closing > 0
        /\ closing' = closing - 1
        /\ currentMessage' = shown.message
        /\ messageQueue' = shown.queue
        /\ selectedTicker' = IF shown.reset THEN 1 ELSE selectedTicker
        /\ displayed' = IF shown.reset
                        THEN Append(displayed, shown.message.id)
                        ELSE displayed
        /\ totalTickers' = shown.message.tickers
        /\ last' = [op |-> "close", key |-> "", pre |-> heap[cur], obj |-> cur,
                    run |-> run, timers |-> timers]
        /\ calls' = <<>>
        /\ sent' = <<>>
        /\ target' = "none"
        /\ UNCHANGED <<heap, cur, nextObj, timers, run, superseded, pressed,
                       flushed, received, shareAmount, closure, server>>

QueueKeys == {"Escape", "2"}

QueueTickerCounts == {30}

QueueReceive ==
    received < MaxQueueMessages /\ \E n \in QueueTickerCounts : handleMessage(n)

QueueKeyDown ==
    /\ nextObj <= MaxQueueKeys + 1
    /\ \E key \in QueueKeys : PopupHandleKeyDown(key, "document")

\* the callbacks the event loop runs
QueueTimerNext ==
    \/ handleClosePopup
    \/ \E t \in timers : BufferExpiry(t)
    \/ \E t \in timers : LockoutRelease(t)

QueueNext == QueueReceive \/ QueueKeyDown \/ handleClose \/ QueueTimerNext

QueueSpec == PopupInit /\ [][QueueNext]_vars

\* the event loop runs a callback that is due
FairQueueSpec == QueueSpec /\ WF_vars(QueueTimerNext)

----------------------------------------------------------------------------
(* The server: the trading_action handler of setupWebSocket                *)
(* (server/websocket.server.ts) and the trading-history log                *)
(* (server/logger.ts).  A handler is an async function: it runs up to an   *)
(* await, and the handlers of other events run in between.                 *)

\* the state of the interpreter and of the Dashboard
client == <<heap, cur, nextObj, timers, totalTickers, calls, last, run,
            superseded, pressed, flushed, dashboard>>

\* the i-th order of the action handler h was given
Order(h, i) == [handler |-> h, order |-> i]

\* an entry of the log: the i-th order of h executed, or (i = 0) the
\* action of h failed
LogEntry(h, i, success) == [handler |-> h, order |-> i, success |-> success]

\* the entry the logTradingAction call in progress in handler r of h writes
Entry(h, r) == LogEntry(h, IF r.failed THEN 0 ELSE r.i + 1, ~r.failed)

\* the handler is called with an action of quantity q: an action with a
\* missing field (quantity 0) is refused, else the loop starts
tradingAction(h, q) ==
    /\ handlers[h].pc = "idle"
    /\ handlers' = [handlers EXCEPT ![h] =
                       IF q = 0
                       THEN [@ EXCEPT !.pc = "done", !.response = "failure"]
                       ELSE [@ EXCEPT !.pc = "send", !.quantity = q]]
    /\ UNCHANGED <<logFile, backend, acked, client>>

\* await sendTradingDataToBackend(action): the order is sent, or the
\* connection fails and the catch block takes over
sendTradingDataToBackend(h, ok) ==
    /\ handlers[h].pc = "send"
    /\ backend' = IF ok THEN Append(backend, Order(h, handlers[h].i + 1))
                        ELSE backend
    /\ handlers' = [handlers EXCEPT ![h] =
                       [@ EXCEPT !.pc = "load", !.failed = ~ok]]
    /\ UNCHANGED <<logFile, acked, client>>

\* logTradingAction, first await: loadTradingLogs reads the file (no file,
\* no entries)
loadTradingLogs(h) ==
    /\ handlers[h].pc = "load"
    /\ handlers' = [handlers EXCEPT ![h] =
                       [@ EXCEPT !.pc = "save", !.logs = logFile]]
    /\ UNCHANGED <<logFile, backend, acked, client>>

\* what the handler does once logTradingAction has returned: the response
\* of the catch block, the next order, or the confirmation
AfterLog(r) ==
    IF r.failed
    THEN [r EXCEPT !.pc = "done", !.response = "failure", !.logs = <<>>]
    ELSE IF r.i + 1 < r.quantity
    THEN [r EXCEPT !.pc = "send", !.i = @ + 1, !.logs = <<>>]
    ELSE [r EXCEPT !.pc = "done", !.i = @ + 1, !.response = "success",
                   !.logs = <<>>]

\* logTradingAction, second await: logs.push(action) and saveTradingLogs
\* writes the array read to the file, and the call returns true; or the
\* write fails and the call returns false.  Then the handler goes on.
saveTradingLogs(h, ok) ==
    /\ handlers[h].pc = "save"
    /\ logFile' = IF ok THEN Append(handlers[h].logs, Entry(h, handlers[h]))
                        ELSE logFile
    /\ acked' = IF ok THEN acked \cup {Entry(h, handlers[h])} ELSE acked
    /\ handlers' = [handlers EXCEPT ![h] = AfterLog(@)]
    /\ UNCHANGED <<backend, client>>

Quantities == 0..MaxQuantity

ServerNext ==
    \/ \E h \in Handlers, q \in Quantities : tradingAction(h, q)
    \/ \E h \in Handlers, ok \in BOOLEAN : sendTradingDataToBackend(h, ok)
    \/ \E h \in Handlers : loadTradingLogs(h)
    \/ \E h \in Handlers, ok \in BOOLEAN : saveTradingLogs(h, ok)

\* no handler has been called, no log file, nothing sent
ServerInit == InitWith({0})

ServerSpec == ServerInit /\ [][ServerNext]_vars

----------------------------------------------------------------------------
(* Properties *)

\* the last step was handleKeyPress on a state that was not disabled, with a
\* key whose lower-case name is k
Handled(k) ==
    last.op = "key" /\ ~last.pre.disabled /\ toLowerCase(last.key) = k

\* the last step was a digit key handled in ticker mode
TickerDigitStep ==
    /\ last.op = "key"
    /\ last.key \in DigitKeys
    /\ ~last.pre.disabled
    /\ ~last.pre.isChangingShares

\* the state the host holds
Held == heap[cur]

RECURSIVE DecimalValue(_)
\* the number a string of digits denotes
DecimalValue(s) ==
    IF s = <<>> THEN 0
    ELSE 10 * DecimalValue(DropLast(s)) + DigitValue(s[Len(s)])

ValidTicker(s, N) == s # <<>> /\ DecimalValue(s) >= 1 /\ DecimalValue(s) <= N

Selects(s) == <<Call("onTickerChange", DecimalValue(s))>>

\* C1: debounce collapse.  When a buy flush that no resetting key
\* superseded fires after n >= 1 buy presses with no flush between them, it
\* calls onBuy(n) and nothing else; when it fires after an earlier flush
\* with no press since (n = 0), it calls nothing, so n presses give one
\* onBuy(n) and no call with a smaller quantity.  The same for sell flushes
\* and onSell.
C1_DebounceCollapse ==
    /\ (last.op = "buy" /\ last.obj \notin superseded) =>
          calls = IF last.run.buy >= 1
                  THEN <<Call("onBuy", last.run.buy)>> ELSE <<>>
    /\ (last.op = "sell" /\ last.obj \notin superseded) =>
          calls = IF last.run.sell >= 1
                  THEN <<Call("onSell", last.run.sell)>> ELSE <<>>

\* C2: a flush that was pending when a key resetting its counter was handled
\* (digit, change, or the opposite trade key) makes no onBuy / onSell call
\* when it fires.
C2_ResetCancelsFlush ==
    (last.op \in {"buy", "sell"} /\ last.obj \in superseded) => calls = <<>>

\* C3: no double accumulation.  The quantities given to onBuy sum to at most
\* the number of buy presses handled, and the same for onSell.
C3_NoDoubleAccumulation ==
    flushed.buy <= pressed.buy /\ flushed.sell <= pressed.sell

\* the algorithm of spec 4.2 on buffer, digit d and N tickers
RefResolve(buffer, d, N) ==
    LET Cut(i) == SubSeq(buffer, i + 1, Len(buffer)) \o d
        fits == {i \in 1..Len(buffer) : ValidTicker(Cut(i), N)}
        least == CHOOSE i \in fits : \A j \in fits : i <= j
        accept == IF ValidTicker(buffer \o d, N) THEN buffer \o d
                  ELSE IF fits # {} THEN Cut(least)
                  ELSE IF ValidTicker(d, N) THEN d
                  ELSE <<>>
    IN  [buffer |-> accept,
         calls |-> IF accept = <<>> THEN <<>> ELSE Selects(accept)]

\* a digit key on buffer `buffer` with N tickers leaves `result` and selects sel
ResolvesTo(N, buffer, key, result, sel) ==
    (TickerDigitStep /\ totalTickers = N /\ last.pre.numberBuffer = buffer
        /\ last.key = key)
    => (Held.numberBuffer = result /\ calls = <<Call("onTickerChange", sel)>>)

\* C4: a digit key in ticker mode leaves the numberBuffer and makes the
\* onTickerChange call (or none) of the algorithm of spec 4.2; with 12
\* tickers 1, 2, 3 select 1, 12, 3 and with 99 tickers 5, 9 select 5, 59.
C4_CascadingResolution ==
    /\ TickerDigitStep =>
          LET r == RefResolve(last.pre.numberBuffer, <<last.key>>, totalTickers)
          IN  Held.numberBuffer = r.buffer /\ calls = r.calls
    /\ ResolvesTo(12, <<>>, "1", <<"1">>, 1)
    /\ ResolvesTo(12, <<"1">>, "2", <<"1", "2">>, 12)
    /\ ResolvesTo(12, <<"1", "2">>, "3", <<"3">>, 3)
    /\ ResolvesTo(99, <<>>, "5", <<"5">>, 5)
    /\ ResolvesTo(99, <<"5">>, "9", <<"5", "9">>, 59)

\* with 12 tickers the key 3 on the buffer "12" has selected ticker 3
C4_Witness ==
    /\ TickerDigitStep
    /\ totalTickers = 12
    /\ last.pre.numberBuffer = <<"1", "2">>
    /\ last.key = "3"
    /\ calls = <<Call("onTickerChange", 3)>>

\* the suffixes of s, and the longest of them that names a ticker
Suffixes(s) == {SubSeq(s, i, Len(s)) : i \in 1..Len(s)}

IsLongestValidSuffix(t, s, N) ==
    /\ t \in Suffixes(s)
    /\ ValidTicker(t, N)
    /\ \A u \in Suffixes(s) : ValidTicker(u, N) => Len(u) <= Len(t)

\* C5: after a digit key in ticker mode the numberBuffer is the longest
\* suffix of the old buffer followed by the digit whose value is in
\* [1, totalTickers], it is empty exactly when there is no such suffix, and
\* onTickerChange is called with the value of that suffix and not otherwise.
C5_LongestValidSuffix ==
    TickerDigitStep =>
       LET typed == last.pre.numberBuffer \o <<last.key>>
       IN  IF \E u \in Suffixes(typed) : ValidTicker(u, totalTickers)
           THEN /\ IsLongestValidSuffix(Held.numberBuffer, typed, totalTickers)
                /\ calls = Selects(Held.numberBuffer)
           ELSE Held.numberBuffer = <<>> /\ calls = <<>>

\* a digit made the window slide: the new buffer is a proper suffix of the
\* typed digits and is longer than the digit alone
C5_Witness ==
    /\ TickerDigitStep
    /\ Len(Held.numberBuffer) >= 2
    /\ Len(Held.numberBuffer) <= Len(last.pre.numberBuffer)

\* C6: a key handled while the state is disabled is a no-op.  The host holds
\* the same object with the same fields, no effect is invoked and the set
\* of pending timers is the same.
C6_DisabledNoOp ==
    (last.op = "key" /\ last.pre.disabled) =>
       /\ cur = last.obj
       /\ Held = last.pre
       /\ calls = <<>>
       /\ timers = last.timers

\* the buy key was pressed during a lockout
C6_Witness ==
    last.op = "key" /\ last.pre.disabled /\ last.key = "b"

\* C7: share-edit isolation at the interpreter.  The buy key handled on a
\* state with isChangingShares leaves buyCount as it was, and no buy flush
\* bound to a state with isChangingShares calls onBuy; the same for sell.
C7_ShareEditIsolation ==
    /\ (Handled("b") /\ last.pre.isChangingShares) =>
          Held.buyCount = last.pre.buyCount
    /\ (Handled("s") /\ last.pre.isChangingShares) =>
          Held.sellCount = last.pre.sellCount
    /\ (last.op \in {"buy", "sell"} /\ last.pre.isChangingShares) =>
          calls = <<>>

\* C8: buyCount and sellCount are mutually exclusive.  No state object has
\* both above 0; after a handled buy key sellCount is 0 and after a handled
\* sell key buyCount is 0.
C8_MutualExclusion ==
    /\ \A o \in Objects : ~(heap[o].buyCount > 0 /\ heap[o].sellCount > 0)
    /\ Handled("b") => Held.sellCount = 0 /\ Held.buyCount = last.pre.buyCount + 1
    /\ Handled("s") => Held.buyCount = 0 /\ Held.sellCount = last.pre.sellCount + 1

\* the sell key came while buy presses were pending
C8_Witness ==
    Handled("s") /\ last.pre.buyCount > 0 /\ Held.buyCount = 0

\* a digit accepted in ticker mode has called onTickerChange once, with the
\* value of the new buffer, and left an expiry timer pending on the state
\* the host holds; an expiry that fires calls no effect, and when it is
\* bound to the state the host holds it empties the host's numberBuffer
ExpiryStep ==
    /\ (TickerDigitStep /\ Held.numberBuffer # <<>>) =>
          /\ calls = Selects(Held.numberBuffer)
          /\ Held.numberBufferTimeout = cur
          /\ \E t \in timers : t.id = cur /\ t.kind = "expiry"
    /\ last.op = "expiry" =>
          /\ calls = <<>>
          /\ last.obj = cur =>
                Held.numberBuffer = <<>> /\ Held.numberBufferTimeout = 0

\* C9: buffer expiry.  A digit accepted in ticker mode calls onTickerChange
\* once at entry and arms an expiry on the state the host holds; the expiry,
\* when it fires, calls no effect; and once a digit is accepted, either a
\* further key arrives (the host then holds another object) or the host's
\* numberBuffer becomes empty.
C9_BufferExpiry ==
    /\ []ExpiryStep
    /\ \A k \in Objects :
          (cur = k /\ TickerDigitStep /\ Held.numberBuffer # <<>>)
             ~> (cur # k \/ Held.numberBuffer = <<>>)

\* with 20 tickers the expiry armed by the digit 7 fired with no key between
C9_Witness ==
    /\ last.op = "expiry"
    /\ last.obj = cur
    /\ totalTickers = 20
    /\ last.pre.numberBuffer = <<"7">>
    /\ Held.numberBuffer = <<>>

\* C10: the confirm key in share-edit mode, on a shareChangeBuffer whose
\* value v is above 0, calls onShareChange(v) and nothing else, leaves
\* share-edit mode, clears shareChangeBuffer and touches no timer.
C10_ConfirmShares ==
    (Handled("enter") /\ last.pre.isChangingShares
        /\ DecimalValue(last.pre.shareChangeBuffer) > 0)
    => /\ calls = <<Call("onShareChange", DecimalValue(last.pre.shareChangeBuffer))>>
       /\ ~Held.isChangingShares
       /\ Held.shareChangeBuffer = <<>>
       /\ timers = last.timers

\* the confirm key on the shareChangeBuffer "250"
C10_Witness ==
    /\ Handled("enter")
    /\ last.pre.isChangingShares
    /\ last.pre.shareChangeBuffer = <<"2", "5", "0">>
    /\ calls = <<Call("onShareChange", 250)>>

\* C11: single flight.  At most one timer is pending in each of the domains
\* buy flush, sell flush, numberBuffer expiry and lockout release.
C11_SingleFlight ==
    \A kind \in {"buy", "sell", "expiry", "release"} :
        Cardinality(Pending(kind)) <= 1

\* C12: the numberBuffer of the state the host holds is empty or parses to
\* an integer in [1, totalTickers].
C12_BufferNamesTicker ==
    Held.numberBuffer = <<>> \/ InRange(parseInt(Held.numberBuffer), totalTickers)

\* C13: one mode at a time.  A state with isChangingShares has an empty
\* numberBuffer, a state without it has an empty shareChangeBuffer, and
\* while the state the host holds has isChangingShares no numberBuffer
\* expiry timer is pending.
C13_ModeExclusive ==
    /\ \A o \in Objects :
          /\ heap[o].isChangingShares => heap[o].numberBuffer = <<>>
          /\ ~heap[o].isChangingShares => heap[o].shareChangeBuffer = <<>>
    /\ Held.isChangingShares => Pending("expiry") = {}

\* the change key came while a ticker number was buffered and its expiry
\* was pending
C13_Witness ==
    /\ Handled("c")
    /\ last.pre.numberBuffer # <<>>
    /\ \E t \in last.timers : t.kind = "expiry"
    /\ Held.isChangingShares

\* the cancel key handled in ticker mode on an empty numberBuffer has called
\* onDisableTemporary once, set disabled and left a release timer pending on
\* the state the host holds; a release that fires on the state the host
\* holds leaves it not disabled
LockoutStep ==
    /\ (last.op = "key" /\ toLowerCase(last.key) \in {"backspace", "escape"}
          /\ ~last.pre.disabled /\ ~last.pre.isChangingShares
          /\ last.pre.numberBuffer = <<>>)
       => /\ calls = <<Call("onDisableTemporary", 0)>>
          /\ Held.disabled
          /\ \E t \in timers : t.id = cur /\ t.kind = "release"
    /\ (last.op = "release" /\ last.obj = cur) => ~Held.disabled

\* C14: the lockout ends.  The cancel key in ticker mode on an empty
\* numberBuffer calls onDisableTemporary once and sets disabled; whatever
\* keys follow, the state the host holds is eventually not disabled again.
C14_LockoutReleased ==
    /\ []LockoutStep
    /\ Held.disabled ~> ~Held.disabled

\* the release timer fired on the state the host holds and ended the lockout
C14_Witness ==
    /\ last.op = "release"
    /\ last.obj = cur
    /\ last.pre.disabled
    /\ ~Held.disabled

\* the fields of a HotkeyState a caller reads
Fields(state) ==
    <<state.buyCount, state.sellCount, state.numberBuffer,
      state.isChangingShares, state.shareChangeBuffer, state.disabled>>

\* C15 as stated: with totalTickers = 0 a digit key handled in ticker mode
\* invokes no effect and returns a state whose fields all equal the input
\* state's.
C15_ZeroTickersNoOp ==
    (TickerDigitStep /\ totalTickers = 0) =>
        calls = <<>> /\ Fields(Held) = Fields(last.pre)

\* C15: with totalTickers = 0 a digit key handled in ticker mode invokes no
\* effect, touches no timer, leaves numberBuffer empty and isChangingShares,
\* shareChangeBuffer and disabled as they were, and sets buyCount and
\* sellCount to 0.
C15_ZeroTickersDigit ==
    (TickerDigitStep /\ totalTickers = 0) =>
        /\ calls = <<>>
        /\ timers = last.timers
        /\ last.pre.numberBuffer = <<>>
        /\ Fields(Held) = Fields([last.pre EXCEPT !.buyCount = 0, !.sellCount = 0])

\* with no ticker a digit key came while a buy press was counted
C15_Witness ==
    /\ TickerDigitStep
    /\ totalTickers = 0
    /\ last.pre.buyCount > 0
    /\ Held.buyCount = 0

\* C17: a zero share amount is absorbed.  The confirm key in share-edit mode
\* on a non-empty shareChangeBuffer whose value is 0 invokes no effect (so
\* no onShareChange replaces the share size), clears shareChangeBuffer,
\* leaves share-edit mode and touches no timer.
C17_ZeroSharesAbsorbed ==
    (Handled("enter") /\ last.pre.isChangingShares
        /\ last.pre.shareChangeBuffer # <<>>
        /\ DecimalValue(last.pre.shareChangeBuffer) = 0)
    => /\ calls = <<>>
       /\ ~Held.isChangingShares
       /\ Held.shareChangeBuffer = <<>>
       /\ timers = last.timers

\* the confirm key on the shareChangeBuffer "00"
C17_Witness ==
    /\ Handled("enter")
    /\ last.pre.isChangingShares
    /\ last.pre.shareChangeBuffer = <<"0", "0">>
    /\ ~Held.isChangingShares

\* C19: after a handled buy key or sell key the numberBuffer is empty, the
\* state holds no expiry handle, no numberBuffer expiry timer is pending,
\* and the key has invoked no effect (no onTickerChange).
C19_TradeKeyClearsBuffer ==
    (Handled("b") \/ Handled("s")) =>
        /\ Held.numberBuffer = <<>>
        /\ Held.numberBufferTimeout = 0
        /\ Pending("expiry") = {}
        /\ calls = <<>>

\* the buy key came while a ticker number was buffered and its expiry was
\* pending
C19_Witness ==
    /\ Handled("b")
    /\ last.pre.numberBuffer # <<>>
    /\ \E t \in last.timers : t.kind = "expiry"
    /\ Held.numberBuffer = <<>>

\* C20: the change key, handled in any mode, leaves isChangingShares set,
\* shareChangeBuffer empty, buyCount = sellCount = 0, numberBuffer empty
\* with no expiry handle and no expiry timer pending, and invokes no effect.
C20_ChangeKey ==
    Handled("c") =>
        /\ Held.isChangingShares
        /\ Held.shareChangeBuffer = <<>>
        /\ Held.buyCount = 0
        /\ Held.sellCount = 0
        /\ Held.numberBuffer = <<>>
        /\ Held.numberBufferTimeout = 0
        /\ Pending("expiry") = {}
        /\ calls = <<>>

\* the change key came in share-edit mode with digits typed
C20_Witness ==
    /\ Handled("c")
    /\ last.pre.isChangingShares
    /\ last.pre.shareChangeBuffer # <<>>
    /\ Held.shareChangeBuffer = <<>>

\* C16: a flush through the TradingPopup host that calls onBuy(q) or
\* onSell(q) while a popup is open and one of its tickers is selected gives
\* sendTradingAction one action: a buy (a sell) of the selected ticker with
\* shares = the share amount and quantity = q.
C16_TradeOfShareAmount ==
    (last.op \in {"buy", "sell"} /\ calls # <<>>
        /\ currentMessage # NoMessage
        /\ selectedTicker \in 1..currentMessage.tickers)
    => /\ Len(sent) = 1
       /\ sent[1].action = last.op
       /\ sent[1].ticker = selectedTicker
       /\ sent[1].shares = shareAmount
       /\ sent[1].quantity = calls[1].arg

\* the last step was a key event of the popup on an input field
FieldEvent == last.op \in {"key", "dropped"} /\ target # "document"

\* a dropped key event has changed nothing of the hotkey state, the timers
\* or the Dashboard, and caused no effect
DroppedUnchanged ==
    last.op = "dropped" =>
        /\ cur = last.obj
        /\ Held = last.pre
        /\ timers = last.timers
        /\ calls = <<>>
        /\ sent = <<>>

\* C18 as stated: a key event on an input field reaches handleKeyPress only
\* if the field is the share input and the state has isChangingShares; any
\* other event on an input field is dropped with the hotkey state unchanged.
C18_FieldFilter ==
    FieldEvent =>
        IF target = "number" /\ last.pre.isChangingShares
        THEN DroppedUnchanged
        ELSE last.op = "dropped" /\ DroppedUnchanged

\* C18: through TradingPopup a key event on an input field reaches
\* handleKeyPress only if the field is the share input, and while the state
\* has isChangingShares only if the key is a digit, Enter, Backspace or
\* Escape; an event on the share input while isChangingShares is false is
\* forwarded; every event on another field is dropped, and a dropped event
\* leaves the hotkey state, the timers and the Dashboard unchanged.
C18_PopupFieldFilter ==
    FieldEvent =>
        /\ last.op = "key" =>
              /\ target = "number"
              /\ last.pre.isChangingShares => ShareEntryKey(last.key)
        /\ (target = "number" /\ ~last.pre.isChangingShares) => last.op = "key"
        /\ target # "number" => last.op = "dropped"
        /\ DroppedUnchanged

\* the buy key typed in the share input outside share-edit mode was counted
C18_Witness ==
    /\ last.op = "key"
    /\ target = "number"
    /\ last.key = "b"
    /\ ~last.pre.isChangingShares
    /\ Held.buyCount = last.pre.buyCount + 1

\* C21: the confirm key handled in ticker mode on a non-empty numberBuffer
\* leaves numberBuffer empty with no expiry handle and no expiry timer
\* pending; it calls onTickerChange(value) and nothing else when the value
\* of the buffer is in [1, totalTickers], and no effect otherwise.
C21_ConfirmTicker ==
    (Handled("enter") /\ ~last.pre.isChangingShares
        /\ last.pre.numberBuffer # <<>>)
    => /\ Held.numberBuffer = <<>>
       /\ Held.numberBufferTimeout = 0
       /\ Pending("expiry") = {}
       /\ calls = IF ValidTicker(last.pre.numberBuffer, totalTickers)
                  THEN Selects(last.pre.numberBuffer) ELSE <<>>

\* the confirm key on the buffer "12" while its expiry was pending
C21_Witness ==
    /\ Handled("enter")
    /\ last.pre.numberBuffer = <<"1", "2">>
    /\ \E t \in last.timers : t.kind = "expiry"
    /\ calls = <<Call("onTickerChange", 12)>>
    /\ timers = {}

\* the last step was the cancel key handled on a state that was not disabled
CancelStep ==
    /\ last.op = "key"
    /\ ~last.pre.disabled
    /\ toLowerCase(last.key) \in {"backspace", "escape"}

\* C22: the cancel key handled in ticker mode on a non-empty numberBuffer
\* removes its last character, invokes no effect and starts no lockout; if
\* the buffer is still non-empty the only expiry timer pending is a new one
\* on the state the host holds, with the delay of the expiry a digit key
\* arms, and otherwise no expiry timer is pending.
C22_CancelShortens ==
    (CancelStep /\ ~last.pre.isChangingShares /\ last.pre.numberBuffer # <<>>)
    => /\ Held.numberBuffer = DropLast(last.pre.numberBuffer)
       /\ calls = <<>>
       /\ ~Held.disabled
       /\ Pending("release") = {}
       /\ {t \in timers : t.kind = "expiry"} =
             IF Held.numberBuffer # <<>>
             THEN {[id |-> cur, kind |-> "expiry", delay |-> ExpiryDelay]}
             ELSE {}

\* the last step was a digit key handled in share-edit mode
ShareDigitStep ==
    /\ last.op = "key"
    /\ last.key \in DigitKeys
    /\ ~last.pre.disabled
    /\ last.pre.isChangingShares

\* C23: a digit key routes by mode.  Handled in share-edit mode it appends
\* the digit to shareChangeBuffer, leaves numberBuffer and the mode as they
\* were, invokes no effect and arms and cancels no timer; handled in ticker
\* mode it leaves shareChangeBuffer and isChangingShares as they were.
C23_DigitRouting ==
    /\ ShareDigitStep =>
          /\ Held.shareChangeBuffer = last.pre.shareChangeBuffer \o <<last.key>>
          /\ Held.numberBuffer = last.pre.numberBuffer
          /\ Held.isChangingShares
          /\ calls = <<>>
          /\ timers = last.timers
    /\ TickerDigitStep =>
          /\ Held.shareChangeBuffer = last.pre.shareChangeBuffer
          /\ ~Held.isChangingShares

\* a second digit was typed in share-edit mode
C23_Witness ==
    /\ ShareDigitStep
    /\ last.pre.shareChangeBuffer # <<>>
    /\ Len(Held.shareChangeBuffer) = 2

EmptyConfirmStep ==
    (Handled("enter") /\ last.pre.isChangingShares
        /\ last.pre.shareChangeBuffer = <<>>)
    => /\ Fields(Held) = Fields(last.pre)
       /\ calls = <<>>
       /\ timers = last.timers

\* the step takes the state the host holds out of share-edit mode
LeavesShareEdit == heap[cur].isChangingShares /\ ~heap'[cur'].isChangingShares

C27_SingleExpiry ==
    /\ Cardinality(Pending("expiry")) <= 1
    /\ (last.op = "expiry" /\ last.obj # cur) =>
          Held.numberBuffer = last.pre.numberBuffer

\* the cancel key shortened the buffer while its expiry was pending and
\* armed the only expiry now pending
C27_Witness ==
    /\ CancelStep
    /\ \E t \in last.timers : t.kind = "expiry"
    /\ Held.numberBuffer # <<>>
    /\ Pending("expiry") = {cur}

\* C28: when no timer is pending, the state the host holds has buyCount = 0,
\* sellCount = 0, an empty numberBuffer and disabled = false.
C28_Quiescent ==
    timers = {} =>
        /\ Held.buyCount = 0
        /\ Held.sellCount = 0
        /\ Held.numberBuffer = <<>>
        /\ ~Held.disabled

\* the last step was a key event of the popup on the document or on the
\* share input, on a state with isChangingShares
ShareEditEvent ==
    /\ last.op \in {"key", "dropped"}
    /\ target \in {"document", "number"}
    /\ last.pre.isChangingShares

\* C26: through TradingPopup a buy or sell key pressed while the state has
\* isChangingShares is not handed to handleKeyPress: the host holds the same
\* state, no timer is scheduled or cancelled and nothing is sent; a digit
\* key pressed in that mode is handed to handleKeyPress, which appends it to
\* shareChangeBuffer, and no effect is invoked and nothing is sent.
C26_PopupShareGuard ==
    /\ (ShareEditEvent /\ toLowerCase(last.key) \in {"b", "s"}) =>
          /\ last.op = "dropped"
          /\ cur = last.obj
          /\ Held = last.pre
          /\ timers = last.timers
          /\ calls = <<>>
          /\ sent = <<>>
    /\ (ShareEditEvent /\ last.key \in DigitKeys) =>
          /\ last.op = "key"
          /\ Held.shareChangeBuffer = last.pre.shareChangeBuffer \o <<last.key>>
          /\ Held.numberBuffer = last.pre.numberBuffer
          /\ timers = last.timers
          /\ calls = <<>>
          /\ sent = <<>>

\* the buy key was pressed on the document in share-edit mode and dropped
C26_Witness ==
    /\ ShareEditEvent
    /\ last.key = "b"
    /\ target = "document"
    /\ last.op = "dropped"
    /\ Held.buyCount = 0

\* C29: no flush that fires while the state the host holds is disabled
\* invokes onBuy or onSell, and nothing is sent.
C29_NoTradeInLockout ==
    (last.op \in {"buy", "sell"} /\ Held.disabled) =>
        calls = <<>> /\ sent = <<>>

\* C30: while a popup is open and the numberBuffer of the state the host
\* holds is non-empty, its value is the selected ticker, the one the most
\* recent onTickerChange call passed.
C30_BufferIsSelection ==
    (currentMessage # NoMessage /\ Held.numberBuffer # <<>>) =>
        parseInt(Held.numberBuffer) = selectedTicker

\* the last step was a handled key that is no hotkey: none of b, s, c,
\* Enter, Backspace, Escape, and no digit
OtherKeyStep ==
    /\ Handled(last.key)
    /\ toLowerCase(last.key) \notin {"b", "s", "c", "enter", "backspace", "escape"}
    /\ ~HasDigit(last.key)

\* the timer that fired last was bound to an object the host no longer
\* holds, and the fields of the state the host holds equal those the
\* callback found: the host's state is a copy no key has changed since
FiredOnUnchangedCopy ==
    /\ last.op \in {"buy", "sell", "expiry"}
    /\ last.obj # cur
    /\ Fields(Held) = Fields(last.pre)

\* C31: a key that is none of b, s, c, Enter, Backspace, Escape or a digit
\* invokes no effect, schedules and cancels no timer and returns a state
\* whose fields all equal the input state's; a timer that was pending still
\* takes effect on the state the host holds afterwards: a buy flush leaves
\* the host's buyCount 0, an expiry leaves the host's numberBuffer empty.
C31_OtherKeyFrame ==
    /\ OtherKeyStep =>
          /\ calls = <<>>
          /\ timers = last.timers
          /\ Fields(Held) = Fields(last.pre)
    /\ (FiredOnUnchangedCopy /\ last.op = "buy") => Held.buyCount = 0
    /\ (FiredOnUnchangedCopy /\ last.op = "expiry") => Held.numberBuffer = <<>>

\* C32: in every state handleKeyPress returned or a timer left, an empty
\* numberBuffer implies that no numberBuffer timer handle is stored.
C32_HandleOnlyWithBuffer ==
    \A o \in Objects :
        heap[o].numberBuffer = <<>> => heap[o].numberBufferTimeout = 0

\* C33: handleKeyPress writes to no field of the state object passed in,
\* whatever the key and the state: after the call that object is as it was
\* given, and what the call changed is in the object returned.
C33_StateByValue ==
    last.op = "key" =>
        /\ heap[last.obj] = last.pre
        /\ Fields(Held) # Fields(last.pre) => cur # last.obj

\* a key changed a state with buyCount above 0: the object returned differs
\* from the object passed in, which still has its count
C33_Witness ==
    /\ last.op = "key"
    /\ last.pre.buyCount > 0
    /\ Held.buyCount = 0
    /\ cur # last.obj
    /\ heap[last.obj].buyCount = last.pre.buyCount

\* the ids of the messages in a queue
Ids(queue) == [k \in 1..Len(queue) |-> queue[k].id]

\* the ids 1 to n in order
UpTo(n) == [k \in 1..n |-> k]

\* message i has been shown
Shown(i) == \E k \in 1..Len(displayed) : displayed[k] = i

\* the step closes the popup: the Escape key on an idle state, or the
\* callback of a click on the close button
ClosesPopup ==
    \/ last'.op = "close"
    \/ last'.op = "key" /\ calls' # <<>> /\ calls'[1].fn = "onDisableTemporary"

\* a step that shows a message shows one, with no popup open or as the
\* open one is closed, and resets the selected ticker to 1
ShowStep ==
    displayed' # displayed =>
        /\ Len(displayed') = Len(displayed) + 1
        /\ currentMessage = NoMessage \/ ClosesPopup
        /\ currentMessage'.id = displayed'[Len(displayed')]
        /\ selectedTicker' = 1

\* C34: the dashboard shows the messages one at a time in arrival order: a
\* message becomes the current popup only when no popup is open (or as the
\* open one is closed); the messages shown so far followed by the queued
\* ones are the messages received, in order, none lost and none twice;
\* whenever no popup is open no message is queued, so that every received
\* message is eventually shown provided popups keep being closed; and the
\* selected ticker is 1 each time a message is shown.
C34_MessageQueue ==
    /\ [](displayed \o Ids(messageQueue) = UpTo(received))
    /\ [](currentMessage = NoMessage => messageQueue = <<>>)
    /\ [](currentMessage # NoMessage =>
            displayed # <<>> /\ currentMessage.id = displayed[Len(displayed)])
    /\ [][ShowStep]_vars
    /\ \A i \in 1..MaxQueueMessages :
          []<>(currentMessage = NoMessage) => ((received >= i) ~> Shown(i))

\* the third message was shown as the second popup was closed, and the
\* selected ticker is 1 though the key 2, still in the numberBuffer, had
\* selected the second ticker
C34_Witness ==
    /\ displayed = <<1, 2, 3>>
    /\ currentMessage.id = 3
    /\ messageQueue = <<>>
    /\ selectedTicker = 1
    /\ Held.numberBuffer = <<"2">>
    /\ last.op = "close"

\* C35: a failed action is all-or-nothing: if the trading_response of an
\* action reports success = false, none of its orders was sent to the
\* backend and none is in the log as a successful trade.
C35_AllOrNothing ==
    \A h \in Handlers :
        handlers[h].response = "failure" =>
            /\ \A k \in 1..Len(backend) : backend[k].handler # h
            /\ \A k \in 1..Len(logFile) :
                  ~(logFile[k].handler = h /\ logFile[k].success)

\* no handler is in the middle of an action
ServerIdle == \A h \in Handlers : handlers[h].pc \in {"idle", "done"}

\* C36: once the handlers are done, the log holds the entry of every
\* logTradingAction call that returned true.
C36_NoLostEntry ==
    ServerIdle =>
        \A e \in acked : \E k \in 1..Len(logFile) : logFile[k] = e

====
